---- MODULE Spec2Model ----
(***************************************************************************)
(* Vector3: a three-component floating-point vector with arithmetic        *)
(* operators, length / normalization, equality with tolerance, dot and     *)
(* cross products and a rounding conversion to an integer Point2D.         *)
(*                                                                         *)
(* Three variants of the header are modelled:                              *)
(*   "part_000"  src/unnamed/part_000      (Epsilon 1.0E+6, round f+0.5)   *)
(*   "Vector3_1" src/Vector3.h lines 1-201 (Epsilon 1.0E-6, signed round)  *)
(*   "Vector3_2" src/Vector3.h lines 202-398 (Epsilon 1.0E6, signed round) *)
(*                                                                         *)
(* FLOAT_TYPE is modelled as an IEEE-754 binary floating-point format with *)
(* Precision significand bits and largest exponent MaxExp: signed zeros,   *)
(* subnormals, infinities, one NaN, round-to-nearest-even.  With           *)
(* Precision = 24 and MaxExp = 127 the format is IEEE binary32.  Every     *)
(* arithmetic operator below computes the correctly rounded result, and    *)
(* every operation of the code is rounded to FLOAT_TYPE on its own (no     *)
(* fused multiply-add, no wider intermediate format).                      *)
(*                                                                         *)
(* What the build leaves open is a choice of the model: the variant of the *)
(* header, whether the unqualified abs of is_equal is the floating-point   *)
(* overload or int abs (int), and the result of an int conversion of a     *)
(* value no int can hold.                                                  *)
(***************************************************************************)
EXTENDS Integers, Sequences, FiniteSets, TLC

\* Op applied to the values of its arguments: each argument is evaluated
\* exactly once, as the argument of a C++ call is
Let1(a, Op(_)) == CHOOSE r \in {Op(x) : x \in {a}} : TRUE
Let2(a, b, Op(_, _)) == CHOOSE r \in {Op(x, y) : x \in {a}, y \in {b}} : TRUE
Let3(a, b, c, Op(_, _, _)) ==
  CHOOSE r \in {Op(x, y, z) : x \in {a}, y \in {b}, z \in {c}} : TRUE

\* ------------------------------------------------------------------------
\* The floating-point format
\* ------------------------------------------------------------------------

Precision == 24
MaxExp == 127

\* exponent of the unit in the last place of the smallest / largest binade
QMin == 2 - MaxExp - Precision
QMax == MaxExp - Precision + 1

\* a finite value is (-1)^s * m * 2^e with 0 <= m < 2^Precision, and either
\* m >= 2^(Precision-1) (normal) or e = QMin (subnormal or zero)
Fin(s, m, e) == [k |-> "fin", s |-> s, m |-> m, e |-> e]
Inf(s) == [k |-> "inf", s |-> s, m |-> 0, e |-> 0]
NaN == [k |-> "nan", s |-> 0, m |-> 0, e |-> 0]

\* 2^Precision: one more than the largest significand
TwoP == 2^Precision

FloatSet == [k : {"fin", "inf", "nan"}, s : {0, 1}, m : Nat, e : Int]

IsNaN(x) == x.k = "nan"
IsInf(x) == x.k = "inf"
IsFinite(x) == x.k = "fin"
IsZero(x) == x.k = "fin" /\ x.m = 0

\* the number of significant bits of n (0 <= n < 2^31)
BitLen(n) ==
  IF n < 32768
  THEN IF n < 128
       THEN IF n < 8
            THEN IF n < 2
                 THEN IF n < 1
                      THEN 0
                      ELSE 1
                 ELSE IF n < 4
                      THEN 2
                      ELSE 3
            ELSE IF n < 32
                 THEN IF n < 16
                      THEN 4
                      ELSE 5
                 ELSE IF n < 64
                      THEN 6
                      ELSE 7
       ELSE IF n < 2048
            THEN IF n < 512
                 THEN IF n < 256
                      THEN 8
                      ELSE 9
                 ELSE IF n < 1024
                      THEN 10
                      ELSE 11
            ELSE IF n < 8192
                 THEN IF n < 4096
                      THEN 12
                      ELSE 13
                 ELSE IF n < 16384
                      THEN 14
                      ELSE 15
  ELSE IF n < 8388608
       THEN IF n < 524288
            THEN IF n < 131072
                 THEN IF n < 65536
                      THEN 16
                      ELSE 17
                 ELSE IF n < 262144
                      THEN 18
                      ELSE 19
            ELSE IF n < 2097152
                 THEN IF n < 1048576
                      THEN 20
                      ELSE 21
                 ELSE IF n < 4194304
                      THEN 22
                      ELSE 23
       ELSE IF n < 134217728
            THEN IF n < 33554432
                 THEN IF n < 16777216
                      THEN 24
                      ELSE 25
                 ELSE IF n < 67108864
                      THEN 26
                      ELSE 27
            ELSE IF n < 536870912
                 THEN IF n < 268435456
                      THEN 28
                      ELSE 29
                 ELSE IF n < 1073741824
                      THEN 30
                      ELSE 31

\* m * 2^q with m <= 2^Precision already rounded: renormalize, overflow
Pack(s, m, q) ==
  IF m = TwoP
  THEN (IF q + 1 > QMax THEN Inf(s) ELSE Fin(s, TwoP \div 2, q + 1))
  ELSE (IF q > QMax THEN Inf(s) ELSE Fin(s, m, q))

\* the exact value n * 2^e (0 <= n < 2^30) rounded to nearest, ties to even
RoundValue(s, n, e) ==
  IF n = 0 THEN Fin(s, 0, QMin)
  ELSE LET bits == BitLen(n)
           q == IF e + bits - Precision > QMin THEN e + bits - Precision ELSE QMin
           sh == q - e
       IN IF sh <= 0 THEN Pack(s, n * 2^(-sh), q)
          ELSE IF sh > bits THEN Fin(s, 0, QMin)
          ELSE LET d == 2^sh
                   quo == n \div d
                   r == n % d
                   up == r * 2 > d \/ (r * 2 = d /\ quo % 2 = 1)
               IN Pack(s, IF up THEN quo + 1 ELSE quo, q)

RoundInt(s, n, e) == Let3(s, n, e, RoundValue)

\* n with its lowest bit set when lower-order bits were dropped (sticky bit)
Jam(n, sticky) == IF sticky /\ n % 2 = 0 THEN n + 1 ELSE n

\* a finite non-zero significand shifted up to exactly Precision bits
NormShift(x) == Precision - BitLen(x.m)

NegValue(x) == IF IsNaN(x) THEN NaN ELSE [x EXCEPT !.s = 1 - x.s]

FNeg(x) == Let1(x, NegValue)

AbsValue(x) == IF IsNaN(x) THEN NaN ELSE [x EXCEPT !.s = 0]

FAbsF(x) == Let1(x, AbsValue)

AddFinite(x, y) ==
  LET xBig == x.e > y.e \/ (x.e = y.e /\ x.m >= y.m)
      big == IF xBig THEN x ELSE y
      small == IF xBig THEN y ELSE x
      d == big.e - small.e
      a == big.m * 8
      b == IF d <= 3 THEN small.m * 2^(3 - d)
           ELSE IF d - 3 >= Precision THEN Jam(0, small.m # 0)
           ELSE Jam(small.m \div 2^(d - 3), small.m % 2^(d - 3) # 0)
      n == IF big.s = small.s THEN a + b ELSE a - b
      s == IF n = 0 THEN (IF x.s = 1 /\ y.s = 1 THEN 1 ELSE 0) ELSE big.s
  IN RoundInt(s, n, big.e - 3)

AddValues(x, y) ==
  IF IsNaN(x) \/ IsNaN(y) THEN NaN
  ELSE IF IsInf(x) THEN (IF IsInf(y) /\ y.s # x.s THEN NaN ELSE x)
  ELSE IF IsInf(y) THEN y
  ELSE AddFinite(x, y)

AddF == [x \in FloatSet, y \in FloatSet |-> AddValues(x, y)]
FAdd(x, y) == AddF[x, y]

FSub(x, y) == FAdd(x, FNeg(y))

Limb == 2^13

\* the exact product m1 * m2 of two significands as <<hi, lo>>, its value
\* being hi * Limb^2 + lo
WideMul(m1, m2) ==
  LET a1 == m1 \div Limb
      b1 == m1 % Limb
      a2 == m2 \div Limb
      b2 == m2 % Limb
      mid == a1 * b2 + a2 * b1
      low == b1 * b2 + (mid % Limb) * Limb
  IN <<a1 * a2 + (mid \div Limb) + (low \div (Limb * Limb)), low % (Limb * Limb)>>

\* (hi * Limb^2 + lo) * 2^e rounded
RoundWide(s, hi, lo, e) ==
  LET bits == IF hi > 0 THEN 26 + BitLen(hi) ELSE BitLen(lo)
      t == IF bits > Precision + 2 THEN bits - (Precision + 2) ELSE 0
      n == IF t = 0 THEN hi * Limb * Limb + lo
           ELSE IF t <= 26 THEN Jam(hi * 2^(26 - t) + (lo \div 2^t), lo % 2^t # 0)
           ELSE Jam(hi \div 2^(t - 26), (hi % 2^(t - 26) # 0) \/ lo # 0)
  IN RoundInt(s, n, e + t)

MulFinite(x, y) ==
  Let1(WideMul(x.m, y.m),
       LAMBDA p : RoundWide(IF x.s = y.s THEN 0 ELSE 1, p[1], p[2], x.e + y.e))

MulValues(x, y) ==
  IF IsNaN(x) \/ IsNaN(y) THEN NaN
  ELSE IF IsInf(x) \/ IsInf(y)
       THEN (IF IsZero(x) \/ IsZero(y) THEN NaN
             ELSE Inf(IF x.s = y.s THEN 0 ELSE 1))
  ELSE MulFinite(x, y)

MulF == [x \in FloatSet, y \in FloatSet |-> MulValues(x, y)]
FMul(x, y) == MulF[x, y]

\* long division: k more quotient bits of rem / den, five at a time
RECURSIVE DivBits(_, _, _, _)
DivBits(quo, rem, den, k) ==
  IF k = 0 THEN <<quo, rem>>
  ELSE LET c == IF k >= 5 THEN 5 ELSE k
           r == rem * 2^c
       IN Let3(quo * 2^c + (r \div den), r % den, k - c,
               LAMBDA q2, r2, k2 : DivBits(q2, r2, den, k2))

DivFinite(x, y) ==
  LET kx == NormShift(x)
      ky == NormShift(y)
      nx == x.m * 2^kx
      ny == y.m * 2^ky
      s == IF x.s = y.s THEN 0 ELSE 1
  IN Let1(Let2(nx, ny, LAMBDA a, b : DivBits(a \div b, a % b, b, Precision + 2)),
          LAMBDA qr : RoundInt(s, Jam(qr[1] * 2, qr[2] # 0),
                               (x.e - kx) - (y.e - ky) - (Precision + 2) - 1))

DivValues(x, y) ==
  LET s == IF x.s = y.s THEN 0 ELSE 1
  IN IF IsNaN(x) \/ IsNaN(y) THEN NaN
     ELSE IF IsInf(x) THEN (IF IsInf(y) THEN NaN ELSE Inf(s))
     ELSE IF IsInf(y) THEN Fin(s, 0, QMin)
     ELSE IF IsZero(y) THEN (IF IsZero(x) THEN NaN ELSE Inf(s))
     ELSE IF IsZero(x) THEN Fin(s, 0, QMin)
     ELSE DivFinite(x, y)

DivF == [x \in FloatSet, y \in FloatSet |-> DivValues(x, y)]
FDiv(x, y) == DivF[x, y]

\* digit-by-digit square root: the radicand is n (base-4 digits taken from
\* the top, pos the weight of the leading one) followed by zs zero digits
RECURSIVE SqrtDigits(_, _, _, _, _)
SqrtDigits(root, rem, n, pos, zs) ==
  IF pos = 0 /\ zs = 0 THEN <<root, rem>>
  ELSE LET r == IF pos > 0 THEN rem * 4 + (n \div pos) ELSE rem * 4
           trial == root * 4 + 1
           n2 == IF pos > 0 THEN n % pos ELSE 0
           pos2 == pos \div 4
           zs2 == IF pos > 0 THEN zs ELSE zs - 1
       IN Let3(IF r >= trial THEN root * 2 + 1 ELSE root * 2,
               IF r >= trial THEN r - trial ELSE r,
               <<n2, pos2, zs2>>,
               LAMBDA root2, rem2, t : SqrtDigits(root2, rem2, t[1], t[2], t[3]))

SqrtFinite(x) ==
  LET kx == NormShift(x)
      ex == x.e - kx
      odd == ex % 2 = 1
      n == IF odd THEN x.m * 2^kx * 2 ELSE x.m * 2^kx
      e2 == IF odd THEN ex - 1 ELSE ex
      pairs == (BitLen(n) + 1) \div 2
      zs == (Precision + 4) \div 2
  IN Let1(Let2(n, 4^(pairs - 1), LAMBDA a, pos : SqrtDigits(0, 0, a, pos, zs)),
          LAMBDA rr : RoundInt(0, Jam(rr[1] * 2, rr[2] # 0), (e2 \div 2) - zs - 1))

SqrtValue(x) ==
  IF IsNaN(x) THEN NaN
  ELSE IF IsZero(x) THEN x
  ELSE IF x.s = 1 THEN NaN
  ELSE IF IsInf(x) THEN x
  ELSE SqrtFinite(x)

SqrtF == [x \in FloatSet |-> SqrtValue(x)]
FSqrt(x) == SqrtF[x]

\* magnitude order on non-NaN values
MagLess(x, y) ==
  IF IsInf(x) THEN FALSE
  ELSE IF IsInf(y) THEN TRUE
  ELSE x.e < y.e \/ (x.e = y.e /\ x.m < y.m)

\* x < y on FLOAT_TYPE
LessValues(x, y) ==
  IF IsNaN(x) \/ IsNaN(y) THEN FALSE
  ELSE IF IsZero(x) /\ IsZero(y) THEN FALSE
  ELSE IF x.s # y.s THEN x.s = 1
  ELSE IF x.s = 0 THEN MagLess(x, y)
  ELSE MagLess(y, x)

LessF == [x \in FloatSet, y \in FloatSet |-> LessValues(x, y)]
FLess(x, y) == LessF[x, y]

\* an integer converted to FLOAT_TYPE
FromInt(n) == IF n < 0 THEN RoundInt(1, -n, 0) ELSE RoundInt(0, n, 0)

\* the decimal literal n/d (both exactly representable) converted to FLOAT_TYPE
Dec(n, d) == FDiv(FromInt(n), FromInt(d))

\* 2^k as a FLOAT_TYPE value (QMin + Precision - 1 <= k <= MaxExp)
Pow2F(k) == Fin(0, TwoP \div 2, k - Precision + 1)

\* the limits of the C++ int
IntMax == (2^30 - 1) + 2^30
IntMin == (-IntMax) - 1

\* int (f): the fractional part is discarded; the behaviour is undefined when
\* the truncated value does not fit an int, and the outcomes are those of the
\* usual hardware conversions (INT_MIN on x86, saturation or 0 elsewhere)
InIntRange(f) ==
  /\ IsFinite(f)
  /\ \/ f.e <= 0
     \/ BitLen(f.m) + f.e <= 31
     \/ (f.s = 1 /\ f.m = TwoP \div 2 /\ f.e = 32 - Precision)

Trunc(f) ==
  IF f.m = 0 \/ f.e <= -Precision THEN 0
  ELSE IF f.e <= 0 THEN (IF f.s = 1 THEN -(f.m \div 2^(-f.e)) ELSE f.m \div 2^(-f.e))
  ELSE IF BitLen(f.m) + f.e <= 31 THEN (IF f.s = 1 THEN -(f.m * 2^f.e) ELSE f.m * 2^f.e)
  ELSE IntMin

ToInt(f) == IF InIntRange(f) THEN {Trunc(f)} ELSE {IntMin, 0, IntMax}

\* ------------------------------------------------------------------------
\* The constants and helper functions of the header
\* ------------------------------------------------------------------------

Variants == {"part_000", "Vector3_1", "Vector3_2"}

\* Vec::One and the literals the code uses
One == FromInt(1)
MinusOne == FromInt(-1)
Half == Dec(1, 2)
FloatZero == FromInt(0)

\* Epsilon value for floating point equality testing
Epsilon(variant) ==
  IF variant = "Vector3_1" THEN Dec(1, 1000000) ELSE FromInt(1000000)

Vector3(x, y, z) == [x |-> x, y |-> y, z |-> z]

Point2D(x, y) == [x |-> x, y |-> y]

\* round of src/unnamed/part_000: int (f + 0.5)
RoundPlusHalf(f) == ToInt(FAdd(f, Half))

\* round of src/Vector3.h: int ((f < 0.0) ? (f - 0.5) : (f + 0.5))
RoundSigned(f) ==
  ToInt(IF FLess(f, FloatZero) THEN FSub(f, Half) ELSE FAdd(f, Half))

round(variant, f) ==
  IF variant = "part_000" THEN RoundPlusHalf(f) ELSE RoundSigned(f)

to_point2d(variant, v) ==
  {Point2D(px, py) : px \in round(variant, v.x), py \in round(variant, v.y)}

\* abs (d) < Epsilon.  The headers include only <cmath> and call abs
\* unqualified: a library that declares ::abs (double) takes the absolute
\* value of d; one that declares only int abs (int) in the global namespace
\* converts d to int first (undefined when d is out of range, or abs of
\* INT_MIN)
AbsLess(absIsInt, d, eps) ==
  IF ~absIsInt THEN {FLess(FAbsF(d), eps)}
  ELSE IF InIntRange(d) /\ Trunc(d) # IntMin
       THEN {FLess(FromInt(IF Trunc(d) < 0 THEN -Trunc(d) ELSE Trunc(d)), eps)}
       ELSE {TRUE, FALSE}

\* the outcomes of a && b: b is evaluated only when a is true
AndThen(a, b) == (IF FALSE \in a THEN {FALSE} ELSE {}) \cup (IF TRUE \in a THEN b ELSE {})

is_equal(variant, absIsInt, l, r) ==
  AndThen(AbsLess(absIsInt, FSub(l.x, r.x), Epsilon(variant)),
          AndThen(AbsLess(absIsInt, FSub(l.y, r.y), Epsilon(variant)),
                  AbsLess(absIsInt, FSub(l.z, r.z), Epsilon(variant))))

\* ------------------------------------------------------------------------
\* The operators and methods of Vector3, as functions of the values
\* ------------------------------------------------------------------------

\* x=s*x, y=s*y; z=s*z;
OpMulAssign(v, s) == Vector3(FMul(s, v.x), FMul(s, v.y), FMul(s, v.z))

\* a faulty operator/=: a zero divisor is special-cased, the vector kept
OpDivAssignGuarded(v, s) ==
  IF IsZero(s) THEN v
  ELSE Vector3(FMul(v.x, FDiv(One, s)), FMul(v.y, FDiv(One, s)),
               FMul(v.z, FDiv(One, s)))

\* FLOAT_TYPE t=Vec::One/s; x*=t; y*=t; z*=t;
OpDivAssign(v, s) ==
  LET t == FDiv(One, s)
  IN Vector3(FMul(v.x, t), FMul(v.y, t), FMul(v.z, t))

\* a faulty operator+=: z takes the wrong field of the argument
OpAddAssignSkewed(v, w) == Vector3(FAdd(v.x, w.x), FAdd(v.y, w.y), FAdd(v.z, w.x))

OpAddAssign(v, w) == Vector3(FAdd(v.x, w.x), FAdd(v.y, w.y), FAdd(v.z, w.z))

OpSubAssign(v, w) == Vector3(FSub(v.x, w.x), FSub(v.y, w.y), FSub(v.z, w.z))

\* the const operators work on a copy w of *this
OpMul(v, s) == OpMulAssign(v, s)
OpDiv(v, s) == OpDivAssign(v, s)
OpAdd(v, w) == OpAddAssign(v, w)
OpSub(v, w) == OpSubAssign(v, w)
OpNeg(v) == OpMulAssign(v, MinusOne)

\* operator* (Vector3 const&): the dot product
OpDot(v, w) == FAdd(FAdd(FMul(v.x, w.x), FMul(v.y, w.y)), FMul(v.z, w.z))

\* this==&v || is_equal (*this, v)
OpEq(variant, absIsInt, same, v, w) ==
  IF same THEN {TRUE} ELSE is_equal(variant, absIsInt, v, w)

OpNe(variant, absIsInt, same, v, w) ==
  {~b : b \in OpEq(variant, absIsInt, same, v, w)}

LengthSq(v) == FAdd(FAdd(FMul(v.x, v.x), FMul(v.y, v.y)), FMul(v.z, v.z))

Length(v) == FSqrt(LengthSq(v))

\* a faulty Normalize: the square root is forgotten
NormalizeNoSqrt(v) ==
  LET m == FAdd(FAdd(FMul(v.x, v.x), FMul(v.y, v.y)), FMul(v.z, v.z))
      mi == FDiv(One, m)
  IN [vec |-> Vector3(FMul(v.x, mi), FMul(v.y, mi), FMul(v.z, mi)), m |-> m]

\* the vector after Normalize () and the value it returns
Normalize(v) ==
  LET m == FSqrt(FAdd(FAdd(FMul(v.x, v.x), FMul(v.y, v.y)), FMul(v.z, v.z)))
      mi == FDiv(One, m)
  IN [vec |-> Vector3(FMul(v.x, mi), FMul(v.y, mi), FMul(v.z, mi)), m |-> m]

\* a faulty operator* (FLOAT_TYPE, Vector3 const&): z is scaled from y
ScalarTimesSkewed(f, v) == Vector3(FMul(f, v.x), FMul(f, v.y), FMul(f, v.y))

\* operator* (FLOAT_TYPE f, Vector3 const& v)
ScalarTimes(f, v) == Vector3(FMul(f, v.x), FMul(f, v.y), FMul(f, v.z))

\* namespace Vec
MagSq(v) == LengthSq(v)
Mag(v) == Length(v)
DistanceSq(l, r) == MagSq(OpSub(l, r))
Distance(l, r) == Mag(OpSub(l, r))
Dot(l, r) == OpDot(l, r)
\* a faulty Cross: the last component adds where it should subtract
CrossPlus(l, r) ==
  Vector3(FSub(FMul(l.y, r.z), FMul(l.z, r.y)),
          FSub(FMul(l.z, r.x), FMul(l.x, r.z)),
          FAdd(FMul(l.x, r.y), FMul(l.y, r.x)))
Cross(l, r) ==
  Vector3(FSub(FMul(l.y, r.z), FMul(l.z, r.y)),
          FSub(FMul(l.z, r.x), FMul(l.x, r.z)),
          FSub(FMul(l.x, r.y), FMul(l.y, r.x)))
Zero == Vector3(FloatZero, FloatZero, FloatZero)
Unit(v) == Normalize(v).vec
\* a faulty Area: the dot product taken for the cross product
AreaFromDot(l, r) == FAbsF(Dot(l, r))
Area(l, r) == Mag(Cross(l, r))

\* ------------------------------------------------------------------------
\* The state: one expression statement of a caller over three Vector3
\* objects
\* ------------------------------------------------------------------------

VARIABLES
  variant,   \* which header the program was built from
  absIsInt,  \* whether the library resolves abs (double) to int abs (int)
  obj,       \* the fields x, y, z of the caller's Vector3 objects
  start,     \* obj before the first call
  pre,       \* obj before the last call
  ret,       \* what the last call returned
  hist       \* the calls made so far: operation, receiver, argument, scalar

vars == <<variant, absIsInt, obj, start, pre, ret, hist>>

Names == {"v", "w", "u"}

\* the longest chain of calls in one expression, (v += a) -= b being two
MaxChain == 2

\* the scalar arguments: 0.0, -0.0, 3.0, -0.5
Scalars == {FloatZero, FNeg(FloatZero), FromInt(3), Dec(-1, 2)}

\* the vectors the objects are constructed from
V123 == Vector3(FromInt(1), FromInt(2), FromInt(3))
V123e == Vector3(FAdd(One, Dec(1, 1000000000)), FromInt(2), FromInt(3))
V123c == Vector3(Dec(10000001, 10000000), FromInt(2), FromInt(3))
V11 == Vector3(Dec(11, 10), FromInt(2), FromInt(3))
V246 == Vector3(FromInt(2), FromInt(4), FromInt(6))
R25 == Vector3(Dec(5, 2), Dec(-5, 2), FloatZero)
R24 == Vector3(Dec(24, 10), Dec(-24, 10), FloatZero)
S1 == Vector3(Dec(1, 10), Dec(2, 10), Dec(3, 10))
S2 == Vector3(Dec(3, 10), Dec(-1, 10), Dec(1, 4))
S3 == Vector3(Dec(1, 4), Dec(4, 10), Dec(-1, 10))
B1 == Vector3(Dec(1001, 10), Dec(3, 10), Dec(-4, 10))
HugeV == Vector3(Pow2F(MaxExp - 20), Pow2F(MaxExp - 21), FloatZero)
HugeW == Vector3(Pow2F(MaxExp - 19), Pow2F(MaxExp - 20), FloatZero)
TinyV == Vector3(Pow2F(20 - MaxExp), FloatZero, FloatZero)

VecsV == {V123, R25, R24, Zero, HugeV, TinyV, S1, B1}
VecsW == {V123e, V123c, V11, V246, Zero, HugeW, S2}
VecsU == {S3}

NoRet == [kind |-> "none", val |-> "none"]

\* a scalar slot of hist for the calls that take no scalar
NoScalar == NaN

InitWith(vs, ws, us, libs) ==
  /\ variant \in Variants
  /\ absIsInt \in libs
  /\ obj \in {[n \in Names |-> IF n = "v" THEN a ELSE IF n = "w" THEN b ELSE c] :
                a \in vs, b \in ws, c \in us}
  /\ start = obj
  /\ pre = obj
  /\ ret = NoRet
  /\ hist = <<>>

Init == InitWith(VecsV, VecsW, VecsU, BOOLEAN)

InitChain == InitWith({V123}, {V11}, {S3}, {FALSE})

\* a call: the objects after it and what it returns
Call(op, r, a, s, newObj, newRet) ==
  /\ obj' = newObj
  /\ pre' = obj
  /\ ret' = newRet
  /\ hist' = Append(hist, [op |-> op, recv |-> r, arg |-> a, s |-> s])
  /\ UNCHANGED <<variant, absIsInt, start>>

\* a faulty return: a reference to another object than the receiver
ReturnOther(r) == [kind |-> "ref", val |-> IF r = "u" THEN "v" ELSE "u"]

\* return *this;
ReturnSelf(r) == [kind |-> "ref", val |-> r]

ReturnValue(kind, val) == [kind |-> kind, val |-> val]

\* --- the non-const operators -------------------------------------------

Assign(r, a) ==
  Call("Assign", r, a, NoScalar, [obj EXCEPT ![r] = obj[a]], ReturnSelf(r))

MulAssign(r, s) ==
  Call("MulAssign", r, "none", s,
       [obj EXCEPT ![r] = OpMulAssign(obj[r], s)], ReturnSelf(r))

DivAssign(r, s) ==
  Call("DivAssign", r, "none", s,
       [obj EXCEPT ![r] = OpDivAssign(obj[r], s)], ReturnSelf(r))

AddAssign(r, a) ==
  Call("AddAssign", r, a, NoScalar,
       [obj EXCEPT ![r] = OpAddAssign(obj[r], obj[a])], ReturnSelf(r))

SubAssign(r, a) ==
  Call("SubAssign", r, a, NoScalar,
       [obj EXCEPT ![r] = OpSubAssign(obj[r], obj[a])], ReturnSelf(r))

CallAssign(r, a) == hist = <<>> /\ Assign(r, a)
CallMulAssign(r, s) == hist = <<>> /\ MulAssign(r, s)
CallDivAssign(r, s) == hist = <<>> /\ DivAssign(r, s)
CallAddAssign(r, a) == hist = <<>> /\ AddAssign(r, a)
CallSubAssign(r, a) == hist = <<>> /\ SubAssign(r, a)

\* the next call of a chain is made on the reference the last one returned
CanChain == hist # <<>> /\ Len(hist) < MaxChain /\ ret.kind = "ref"

ChainAssign(a) == CanChain /\ Assign(ret.val, a)
ChainMulAssign(s) == CanChain /\ MulAssign(ret.val, s)
ChainDivAssign(s) == CanChain /\ DivAssign(ret.val, s)
ChainAddAssign(a) == CanChain /\ AddAssign(ret.val, a)
ChainSubAssign(a) == CanChain /\ SubAssign(ret.val, a)

CallNormalize(r) ==
  /\ hist = <<>>
  /\ Call("Normalize", r, "none", NoScalar,
          [obj EXCEPT ![r] = Normalize(obj[r]).vec],
          ReturnValue("scalar", Normalize(obj[r]).m))

CallZero(r) ==
  /\ hist = <<>>
  /\ Call("Zero", r, "none", NoScalar, [obj EXCEPT ![r] = Zero], NoRet)

\* --- the const operators and methods -----------------------------------

CallMul(r, s) ==
  /\ hist = <<>>
  /\ Call("Mul", r, "none", s, obj, ReturnValue("vec", OpMul(obj[r], s)))

CallDiv(r, s) ==
  /\ hist = <<>>
  /\ Call("Div", r, "none", s, obj, ReturnValue("vec", OpDiv(obj[r], s)))

CallAdd(r, a) ==
  /\ hist = <<>>
  /\ Call("Add", r, a, NoScalar, obj, ReturnValue("vec", OpAdd(obj[r], obj[a])))

CallSub(r, a) ==
  /\ hist = <<>>
  /\ Call("Sub", r, a, NoScalar, obj, ReturnValue("vec", OpSub(obj[r], obj[a])))

CallNeg(r) ==
  /\ hist = <<>>
  /\ Call("Neg", r, "none", NoScalar, obj, ReturnValue("vec", OpNeg(obj[r])))

CallDotOp(r, a) ==
  /\ hist = <<>>
  /\ Call("DotOp", r, a, NoScalar, obj, ReturnValue("scalar", OpDot(obj[r], obj[a])))

CallEq(r, a) ==
  /\ hist = <<>>
  /\ \E b \in OpEq(variant, absIsInt, r = a, obj[r], obj[a]) :
       Call("Eq", r, a, NoScalar, obj, ReturnValue("bool", b))

CallNe(r, a) ==
  /\ hist = <<>>
  /\ \E b \in OpNe(variant, absIsInt, r = a, obj[r], obj[a]) :
       Call("Ne", r, a, NoScalar, obj, ReturnValue("bool", b))

CallToPoint2D(r) ==
  /\ hist = <<>>
  /\ \E p \in to_point2d(variant, obj[r]) :
       Call("ToPoint2D", r, "none", NoScalar, obj, ReturnValue("point", p))

CallLengthSq(r) ==
  /\ hist = <<>>
  /\ Call("LengthSq", r, "none", NoScalar, obj, ReturnValue("scalar", LengthSq(obj[r])))

CallLength(r) ==
  /\ hist = <<>>
  /\ Call("Length", r, "none", NoScalar, obj, ReturnValue("scalar", Length(obj[r])))

\* --- the free operator and the functions of namespace Vec ---------------

CallScalarTimes(s, a) ==
  /\ hist = <<>>
  /\ Call("ScalarTimes", "none", a, s, obj, ReturnValue("vec", ScalarTimes(s, obj[a])))

CallMagSq(a) ==
  /\ hist = <<>>
  /\ Call("MagSq", "none", a, NoScalar, obj, ReturnValue("scalar", MagSq(obj[a])))

CallMag(a) ==
  /\ hist = <<>>
  /\ Call("Mag", "none", a, NoScalar, obj, ReturnValue("scalar", Mag(obj[a])))

CallDistanceSq(l, r) ==
  /\ hist = <<>>
  /\ Call("DistanceSq", l, r, NoScalar, obj,
          ReturnValue("scalar", DistanceSq(obj[l], obj[r])))

CallDistance(l, r) ==
  /\ hist = <<>>
  /\ Call("Distance", l, r, NoScalar, obj,
          ReturnValue("scalar", Distance(obj[l], obj[r])))

CallDot(l, r) ==
  /\ hist = <<>>
  /\ Call("Dot", l, r, NoScalar, obj, ReturnValue("scalar", Dot(obj[l], obj[r])))

CallCross(l, r) ==
  /\ hist = <<>>
  /\ Call("Cross", l, r, NoScalar, obj, ReturnValue("vec", Cross(obj[l], obj[r])))

CallVecZero ==
  /\ hist = <<>>
  /\ Call("VecZero", "none", "none", NoScalar, obj, ReturnValue("vec", Zero))

\* a faulty Unit: v itself is normalized
CallUnitInPlace(a) ==
  /\ hist = <<>>
  /\ Call("Unit", "none", a, NoScalar,
          [obj EXCEPT ![a] = Normalize(obj[a]).vec],
          ReturnValue("vec", Normalize(obj[a]).vec))

CallUnit(a) ==
  /\ hist = <<>>
  /\ Call("Unit", "none", a, NoScalar, obj, ReturnValue("vec", Unit(obj[a])))

CallArea(l, r) ==
  /\ hist = <<>>
  /\ Call("Area", l, r, NoScalar, obj, ReturnValue("scalar", Area(obj[l], obj[r])))

Next ==
  \/ \E r \in Names, a \in Names : CallAssign(r, a)
  \/ \E r \in Names, s \in Scalars : CallMulAssign(r, s)
  \/ \E r \in Names, s \in Scalars : CallDivAssign(r, s)
  \/ \E r \in Names, a \in Names : CallAddAssign(r, a)
  \/ \E r \in Names, a \in Names : CallSubAssign(r, a)
  \/ \E r \in Names : CallNormalize(r)
  \/ \E r \in Names : CallZero(r)
  \/ \E r \in Names, s \in Scalars : CallMul(r, s)
  \/ \E r \in Names, s \in Scalars : CallDiv(r, s)
  \/ \E r \in Names, a \in Names : CallAdd(r, a)
  \/ \E r \in Names, a \in Names : CallSub(r, a)
  \/ \E r \in Names : CallNeg(r)
  \/ \E r \in Names, a \in Names : CallDotOp(r, a)
  \/ \E r \in Names, a \in Names : CallEq(r, a)
  \/ \E r \in Names, a \in Names : CallNe(r, a)
  \/ \E r \in Names : CallToPoint2D(r)
  \/ \E r \in Names : CallLengthSq(r)
  \/ \E r \in Names : CallLength(r)
  \/ \E s \in Scalars, a \in Names : CallScalarTimes(s, a)
  \/ \E a \in Names : CallMagSq(a)
  \/ \E a \in Names : CallMag(a)
  \/ \E l \in Names, r \in Names : CallDistanceSq(l, r)
  \/ \E l \in Names, r \in Names : CallDistance(l, r)
  \/ \E l \in Names, r \in Names : CallDot(l, r)
  \/ \E l \in Names, r \in Names : CallCross(l, r)
  \/ CallVecZero
  \/ \E a \in Names : CallUnit(a)
  \/ \E l \in Names, r \in Names : CallArea(l, r)

NextChain ==
  \/ Next
  \/ \E a \in Names : ChainAssign(a)
  \/ \E s \in Scalars : ChainMulAssign(s)
  \/ \E s \in Scalars : ChainDivAssign(s)
  \/ \E a \in Names : ChainAddAssign(a)
  \/ \E a \in Names : ChainSubAssign(a)

\* one call on objects constructed from the input vectors
Spec == Init /\ [][Next]_vars

\* chains of the non-const operators
SpecChain == InitChain /\ [][NextChain]_vars

\* ------------------------------------------------------------------------
\* Properties
\* ------------------------------------------------------------------------

\* the last call made
Last == hist[Len(hist)]
Did(op) == hist # <<>> /\ Last.op = op

\* every outcome of a comparison is true
Surely(outcomes) == outcomes = {TRUE}

IsZeroVec(v) == IsZero(v.x) /\ IsZero(v.y) /\ IsZero(v.z)
FiniteVec(v) == IsFinite(v.x) /\ IsFinite(v.y) /\ IsFinite(v.z)
NoFiniteField(v) == ~IsFinite(v.x) /\ ~IsFinite(v.y) /\ ~IsFinite(v.z)

\* a finite value of magnitude below 2^30
Small(f) == IsFinite(f) /\ BitLen(f.m) + f.e <= 30

\* the integer nearest to a Small value, half-way cases away from zero:
\* floor (f + 0.5) for f >= 0 and -floor (-f + 0.5) for f < 0, exactly
NearestAway(f) ==
  LET mag == IF f.e >= 0 THEN f.m * 2^f.e
             ELSE IF -f.e > Precision + 1 THEN 0
             ELSE (2 * f.m + 2^(-f.e)) \div 2^(1 - f.e)
  IN IF f.s = 1 THEN -mag ELSE mag

\* C1: converting a vector to a Point2D gives its x and y rounded to the
\* nearest integer, half-way cases away from zero (up for non-negative
\* values), z ignored: (2.5, -2.5, 0.0) gives (3, -3) and (2.4, -2.4, 0.0)
\* gives (2, -2)
C1_RoundsHalfAwayFromZero ==
  (Did("ToPoint2D") /\ Small(pre[Last.recv].x) /\ Small(pre[Last.recv].y))
    => ret.val = Point2D(NearestAway(pre[Last.recv].x),
                         NearestAway(pre[Last.recv].y))

\* |l - r| < 1e-6 on every pair of components
WithinMillionth(l, r) ==
  /\ FLess(FAbsF(FSub(l.x, r.x)), Dec(1, 1000000))
  /\ FLess(FAbsF(FSub(l.y, r.y)), Dec(1, 1000000))
  /\ FLess(FAbsF(FSub(l.z, r.z)), Dec(1, 1000000))

\* C2: a == b is true exactly when a and b are the same object or every
\* pair of components differs by less than 1e-6: (1, 2, 3) == (1 + 1e-9, 2, 3)
\* is true and (1, 2, 3) == (1.1, 2, 3) is false
C2_EqualWithinMillionth ==
  Did("Eq") =>
    ret.val = (Last.recv = Last.arg \/ WithinMillionth(pre[Last.recv], pre[Last.arg]))

\* the squared length of a well-scaled vector is far from overflow and from
\* underflow: 2^-SafeExp <= LengthSq (v) <= 2^SafeExp
SafeExp == MaxExp - 2 * Precision - 2

WellScaled(v) ==
  /\ IsFinite(LengthSq(v))
  /\ ~FLess(LengthSq(v), Pow2F(-SafeExp))
  /\ ~FLess(Pow2F(SafeExp), LengthSq(v))

\* the outcomes of comparing two scalars with the tolerance of ==
Near(a, b) == AbsLess(absIsInt, FSub(a, b), Epsilon(variant))

\* after Normalize on the object that held v: m is returned, the object has
\* length 1 within tolerance, and each field was scaled by the one 1/m
RoundTrip(v, after, m) ==
  /\ m = Length(v)
  /\ Surely(Near(Length(after), One))
  /\ after = Vector3(FMul(v.x, FDiv(One, m)), FMul(v.y, FDiv(One, m)),
                     FMul(v.z, FDiv(One, m)))

NonMutating ==
  {"Mul", "Div", "Add", "Sub", "Neg", "DotOp", "Eq", "Ne", "LengthSq", "Length",
   "Unit", "Cross", "Dot", "Distance", "Area"}

\* C4: the non-mutating operations return a new value and leave the receiver
\* and every vector argument unchanged; Unit (v) leaves the fields of v as
\* they were
C4_NonMutatingFrame ==
  (hist # <<>> /\ Last.op \in NonMutating)
    => (obj = pre /\ ret.kind \in {"vec", "scalar", "bool"})

C4_Witness ==
  /\ Did("Unit")
  /\ obj[Last.arg] = pre[Last.arg]
  /\ ret.val # pre[Last.arg]
  /\ ret.val = Normalize(pre[Last.arg]).vec

\* C5: s * v gives the same result as v * s, each field being s times the
\* field of v
C5_ScalarTimesCommutes ==
  Did("ScalarTimes")
    => /\ ret.val = OpMul(pre[Last.arg], Last.s)
       /\ ret.val = Vector3(FMul(Last.s, pre[Last.arg].x),
                            FMul(Last.s, pre[Last.arg].y),
                            FMul(Last.s, pre[Last.arg].z))

C5_Witness ==
  /\ Did("ScalarTimes")
  /\ Last.s = FromInt(3)
  /\ pre[Last.arg] = Vector3(FromInt(1), FromInt(2), FromInt(3))
  /\ ret.val = Vector3(FromInt(3), FromInt(6), FromInt(9))

\* Cross (a, b) == -Cross (b, a), and Cross (a, a) the zero vector
AntiCommutes(a, b, cross) ==
  /\ Surely(OpEq(variant, absIsInt, FALSE, cross, OpNeg(Cross(b, a))))
  /\ (a = b => Surely(OpEq(variant, absIsInt, FALSE, cross, Zero)))

\* C6 as stated: for all vectors a and b, Cross (a, b) == -Cross (b, a), and
\* Cross (a, a) equals the zero vector
C6_CrossAntiCommutesAlways ==
  Did("Cross") => AntiCommutes(pre[Last.recv], pre[Last.arg], ret.val)

\* C6 amended: for all vectors a and b for which every component of
\* Cross (a, b) is finite, Cross (a, b) == -Cross (b, a), and Cross (a, a)
\* is then the zero vector
C6_CrossAntiCommutesFinite ==
  (Did("Cross") /\ FiniteVec(ret.val))
    => /\ AntiCommutes(pre[Last.recv], pre[Last.arg], ret.val)
       /\ (pre[Last.recv] = pre[Last.arg] => IsZeroVec(ret.val))

C6_Witness ==
  /\ Did("Cross")
  /\ FiniteVec(ret.val)
  /\ ~IsZeroVec(ret.val)
  /\ variant = "Vector3_1" /\ ~absIsInt
  /\ Surely(OpEq(variant, absIsInt, FALSE, ret.val,
                 OpNeg(Cross(pre[Last.arg], pre[Last.recv]))))

\* the largest component magnitude for which three-term sums stay within
\* the tolerance of one another: Epsilon * 2^(Precision - 5)
TameLimit == FMul(Epsilon(variant), Pow2F(Precision - 5))

TameField(f) == IsFinite(f) /\ ~FLess(TameLimit, FAbsF(f))
Tame(v) == TameField(v.x) /\ TameField(v.y) /\ TameField(v.z)

SurelyEq(l, r) == Surely(OpEq(variant, absIsInt, FALSE, l, r))

\* C7 as stated: for all vectors a, b, c, (a + b) + c == a + (b + c) and
\* a + b == b + a
C7_AddAssociatesAlways ==
  Did("Add") =>
    /\ SurelyEq(ret.val, OpAdd(pre[Last.arg], pre[Last.recv]))
    /\ \A c \in Names :
         SurelyEq(OpAdd(ret.val, pre[c]),
                  OpAdd(pre[Last.recv], OpAdd(pre[Last.arg], pre[c])))

\* C7 amended: a + b == b + a for all vectors a, b whose sum has finite
\* components, and (a + b) + c == a + (b + c) for all vectors a, b, c whose
\* components are at most Epsilon * 2^(Precision - 5) in magnitude
C7_AddAssociatesTame ==
  Did("Add") =>
    /\ FiniteVec(ret.val)
         => SurelyEq(ret.val, OpAdd(pre[Last.arg], pre[Last.recv]))
    /\ \A c \in Names :
         (Tame(pre[Last.recv]) /\ Tame(pre[Last.arg]) /\ Tame(pre[c]))
           => SurelyEq(OpAdd(ret.val, pre[c]),
                       OpAdd(pre[Last.recv], OpAdd(pre[Last.arg], pre[c])))

C7_Witness ==
  /\ Did("Add")
  /\ variant = "Vector3_1" /\ ~absIsInt
  /\ Last.recv # Last.arg
  /\ Tame(pre["v"]) /\ Tame(pre["w"]) /\ Tame(pre["u"])
  /\ \E c \in Names \ {Last.recv, Last.arg} :
       /\ OpAdd(ret.val, pre[c])
            # OpAdd(pre[Last.recv], OpAdd(pre[Last.arg], pre[c]))
       /\ SurelyEq(OpAdd(ret.val, pre[c]),
                   OpAdd(pre[Last.recv], OpAdd(pre[Last.arg], pre[c])))

\* m * 2^e with m > 0 as <<odd, exponent>>
RECURSIVE OddPart(_, _)
OddPart(m, e) == IF m % 2 = 1 THEN <<m, e>> ELSE Let2(m \div 2, e + 1, OddPart)

\* the exact product of two finite values: sign, odd significand, exponent
ExactProduct(x, y) ==
  IF x.m = 0 \/ y.m = 0 THEN <<0, <<0, 0>>, 0>>
  ELSE <<(x.s + y.s) % 2,
         WideMul(OddPart(x.m, x.e)[1], OddPart(y.m, y.e)[1]),
         OddPart(x.m, x.e)[2] + OddPart(y.m, y.e)[2]>>

\* a and b are parallel: their cross product is zero in exact arithmetic
Parallel(a, b) ==
  /\ FiniteVec(a) /\ FiniteVec(b)
  /\ ExactProduct(a.y, b.z) = ExactProduct(a.z, b.y)
  /\ ExactProduct(a.z, b.x) = ExactProduct(a.x, b.z)
  /\ ExactProduct(a.x, b.y) = ExactProduct(a.y, b.x)

\* C8 as stated: for all parallel vectors a and b, including when either is
\* the zero vector, Area (a, b) equals 0
C8_AreaOfParallelAlways ==
  (Did("Area") /\ Parallel(pre[Last.recv], pre[Last.arg])) => IsZero(ret.val)

\* C8 amended: for all parallel vectors a and b, including when either is
\* the zero vector, for which every component of Cross (a, b) is finite (no
\* product of their components overflows), Area (a, b) equals 0
C8_AreaOfParallelFinite ==
  (/\ Did("Area")
   /\ Parallel(pre[Last.recv], pre[Last.arg])
   /\ FiniteVec(Cross(pre[Last.recv], pre[Last.arg])))
    => IsZero(ret.val)

C8_Witness ==
  /\ Did("Area")
  /\ Last.recv # Last.arg
  /\ pre[Last.recv] # pre[Last.arg]
  /\ ~IsZeroVec(pre[Last.recv]) /\ ~IsZeroVec(pre[Last.arg])
  /\ Parallel(pre[Last.recv], pre[Last.arg])
  /\ IsZero(ret.val)

\* C9: dividing by the scalar 0 (/= or /) and Normalize on a vector of
\* magnitude 0 complete normally and leave every field non-finite
C9_DegeneraciesUnguarded ==
  /\ (Did("DivAssign") /\ IsZero(Last.s))
       => (NoFiniteField(obj[Last.recv]) /\ ret = ReturnSelf(Last.recv))
  /\ (Did("Div") /\ IsZero(Last.s))
       => (ret.kind = "vec" /\ NoFiniteField(ret.val))
  /\ (Did("Normalize") /\ IsZero(ret.val)) => NoFiniteField(obj[Last.recv])

C9_Witness ==
  /\ Did("DivAssign")
  /\ IsZero(Last.s)
  /\ FiniteVec(pre[Last.recv])
  /\ IsInf(obj[Last.recv].x) /\ IsInf(obj[Last.recv].y) /\ IsNaN(obj[Last.recv].z)

Mutators == {"MulAssign", "DivAssign", "AddAssign", "SubAssign"}

\* what the operation h makes of the object v: *= multiplies each field by
\* s, /= by the reciprocal of s, += and -= add or subtract the fields of
\* the argument
Applied(o, h, v) ==
  IF h.op = "MulAssign"
  THEN Vector3(FMul(h.s, o[v].x), FMul(h.s, o[v].y), FMul(h.s, o[v].z))
  ELSE IF h.op = "DivAssign"
  THEN Vector3(FMul(o[v].x, FDiv(One, h.s)), FMul(o[v].y, FDiv(One, h.s)),
               FMul(o[v].z, FDiv(One, h.s)))
  ELSE IF h.op = "AddAssign"
  THEN Vector3(FAdd(o[v].x, o[h.arg].x), FAdd(o[v].y, o[h.arg].y),
               FAdd(o[v].z, o[h.arg].z))
  ELSE Vector3(FSub(o[v].x, o[h.arg].x), FSub(o[v].y, o[h.arg].y),
               FSub(o[v].z, o[h.arg].z))

\* the objects after the first k operations of hist, all applied to v
RECURSIVE Replay(_, _)
Replay(k, v) ==
  IF k = 0 THEN start
  ELSE Let1(Replay(k - 1, v), LAMBDA o : [o EXCEPT ![v] = Applied(o, hist[k], v)])

\* C10: each mutating operator works in place and returns a reference to
\* its receiver: after a chain of them applied to v, v holds the result of
\* applying the operations in order to its original value, and the other
\* vectors are unchanged
C10_ChainInPlace ==
  (hist # <<>> /\ \A i \in 1..Len(hist) : hist[i].op \in Mutators)
    => /\ \A i \in 1..Len(hist) : hist[i].recv = hist[1].recv
       /\ ret = ReturnValue("ref", hist[1].recv)
       /\ obj = Replay(Len(hist), hist[1].recv)

C10_Witness ==
  /\ Len(hist) = 2
  /\ hist[1].op = "AddAssign" /\ hist[2].op = "SubAssign"
  /\ hist[1].recv = "v" /\ hist[1].arg = "w" /\ hist[2].arg = "u"
  /\ obj["v"] = OpSub(OpAdd(start["v"], start["w"]), start["u"])
  /\ obj["v"] # start["v"]
  /\ obj["w"] = start["w"] /\ obj["u"] = start["u"]

====
